---- MODULE Spec2Model ----
(***************************************************************************)
(* Model of apihub-op-group-creator (src/main.go): a sequential pipeline   *)
(* that lists the operations of a package version page by page, filters    *)
(* them by a custom tag, (re)creates an operation group, sets the group's  *)
(* membership and exports the group to a file.                             *)
(*                                                                         *)
(* Every HTTP call is two steps, the request leaving (Send) and the        *)
(* response arriving (Recv); the response is chosen by the remote service. *)
(* Formatted strings (fmt.Sprintf, fmt.Errorf) are sequences of tokens, so *)
(* "contains" is the presence of a token.                                  *)
(***************************************************************************)
EXTENDS Integers, Sequences, FiniteSets, TLC

VARIABLES
    pc,             \* position of main
    groupName,      \* -group
    customTagKey,   \* -x-key
    customTagValue, \* -x-value
    force,          \* -force
    outputFormat,   \* -outputFormat
    page,           \* listOperations: page index
    allOps,         \* listOperations: accumulated operations; main: operations
    filteredOps,    \* main: result of filterOperations
    exportId,       \* main: result of startExport
    attempt,        \* waitAndSaveExport: loop counter
    file,           \* the output file: NoFile or [path, data]
    writes,         \* number of os.WriteFile calls
    exitCode,       \* Running, 0 or 1
    err,            \* what main printed before os.Exit(1)
    trace,          \* requests sent and responses received, in order
    lastResp,       \* the response received last
    pendingPolls    \* status polls answered with a non-terminal status object

vars == <<pc, groupName, customTagKey, customTagValue, force, outputFormat,
          page, allOps, filteredOps, exportId, attempt, file,
          writes, exitCode, err, trace, lastResp, pendingPolls>>

-----------------------------------------------------------------------------
(* Program constants *)

pageSize == 100
maxAttempts == 30

(* Bounds of the model *)

\* full pages the service may return before it must return a short one
MaxFullPages == 2
\* longest short page of the service
MaxShort == 1
\* longest input list of the filter specification
MaxOps == 3

Running == -1
NoFile == [path |-> <<>>, data |-> <<>>, present |-> FALSE]

-----------------------------------------------------------------------------
(* Data model: Operation, OperationRef, and the untyped tag value.  A tag    *)
(* value decoded into `any` is a string, a []string, a []interface{} or      *)
(* something else (here a float64).                                          *)

StrVal(s)  == [t |-> "string", s |-> s]
StrsVal(q) == [t |-> "[]string", ss |-> q]
AnysVal(q) == [t |-> "[]interface{}", es |-> q]
NumVal(n)  == [t |-> "float64", n |-> n]

NoTags == [k \in {} |-> StrVal("")]
Tag(k, v) == [x \in {k} |-> v]

Operation(id, tags) == [operationId |-> id, customTags |-> tags, packageRef |-> "pkg"]
OperationRef(id) == [operationId |-> id]

-----------------------------------------------------------------------------
(* filterOperations *)

\* scanStrings with the loop left after its first element
scanStringsFirstOnly(v, i, customTagValueArg) ==
    Len(v) >= 1 /\ v[1] = customTagValueArg

\* case []string: the loop over v with break
RECURSIVE scanStrings(_, _, _)
scanStrings(v, i, customTagValueArg) ==
    IF i > Len(v) THEN FALSE
    ELSE IF v[i] = customTagValueArg THEN TRUE
    ELSE scanStrings(v, i + 1, customTagValueArg)

\* case []interface{}: the loop over v with the type assertion elem.(string)
RECURSIVE scanAnys(_, _, _)
scanAnys(v, i, customTagValueArg) ==
    IF i > Len(v) THEN FALSE
    ELSE IF v[i].t = "string" /\ v[i].s = customTagValueArg THEN TRUE
    ELSE scanAnys(v, i + 1, customTagValueArg)

\* tagFound without the []string case
tagFoundNoStringSlice(val, customTagValueArg) ==
    CASE val.t = "string" -> val.s = customTagValueArg
      [] val.t = "[]interface{}" -> scanAnys(val.es, 1, customTagValueArg)
      [] OTHER -> FALSE

\* the type switch on val
tagFound(val, customTagValueArg) ==
    CASE val.t = "string" -> val.s = customTagValueArg
      [] val.t = "[]string" -> scanStrings(val.ss, 1, customTagValueArg)
      [] val.t = "[]interface{}" -> scanAnys(val.es, 1, customTagValueArg)
      [] OTHER -> FALSE

\* the loop body's decision for one operation: it carries the key and the
\* type switch finds the value
matches(op, key, value) ==
    /\ key \in DOMAIN op.customTags
    /\ tagFound(op.customTags[key], value)

\* the loop over ops: each matching operation is appended, in order
filterOperations(ops, key, value) ==
    LET Test(op) == matches(op, key, value) IN SelectSeq(ops, Test)

-----------------------------------------------------------------------------
(* The remote service: the responses it may give.  code = 0 stands for a     *)
(* transport failure (http.DefaultClient.Do returns an error).  The service  *)
(* honours limit=pageSize: a page never has more than pageSize operations.   *)
(* It may repeat an identifier, within a page or across pages.               *)

Codes == {200, 201, 202, 204, 404, 500}
NetErr == [code |-> 0]
PlainResponses == {NetErr} \cup {[code |-> c] : c \in Codes}

XKey == "x-special"
XValue == "aaa"

\* operations of the service's pages
Tagged(id) == Operation(id, Tag(XKey, StrVal(XValue)))
Plain(id) == Operation(id, NoTags)
FullPages == { [i \in 1..pageSize |-> IF i % 2 = 1 THEN Tagged(i) ELSE Plain(i)] }
SmallOps == { Tagged(1), Operation(1, Tag(XKey, AnysVal(<<NumVal(1), StrVal("bbb")>>))) }
ShortPages == UNION { [1..n -> SmallOps] : n \in 0..MaxShort }

\* a list response: a status code and, on 200, a body that decodes to a
\* ListResponse or does not
ListResponses(fullAllowed) ==
    {NetErr} \cup {[code |-> c] : c \in Codes \ {200}}
    \cup {[code |-> 200, decodes |-> FALSE]}
    \cup {[code |-> 200, decodes |-> TRUE, operations |-> p] :
            p \in ShortPages \cup (IF fullAllowed THEN FullPages ELSE {})}

ExportIds == {"e1"}
ExportResponses ==
    PlainResponses \cup {[code |-> 202, decodes |-> TRUE, exportId |-> e] : e \in ExportIds}

\* bodies of a status response: a JSON status object or raw bytes
JsonBody(st, msg) == [isJSON |-> TRUE, status |-> st, message |-> msg,
                      bytes |-> <<"{", st, msg, "}">>]
RawBody(b) == [isJSON |-> FALSE, status |-> "", message |-> "", bytes |-> b]
JsonBodies ==
    {JsonBody(st, "") : st \in {"none", "running", "completed"}}
    \cup {JsonBody("error", m) : m \in {"X", "Y"}}
RawBodies == {RawBody(<<>>), RawBody(<<"b1", "b2">>)}
JsonType == "application/json"
JsonTypes == { <<JsonType, "; charset=utf-8">> }
OtherTypes == { <<"application/octet-stream">>, <<>> }
\* readOk: io.ReadAll of the body succeeds
StatusResponses ==
    {NetErr} \cup {[code |-> c] : c \in Codes \ {200}}
    \cup {[code |-> 200, contentType |-> ct, body |-> b, readOk |-> TRUE] :
            ct \in JsonTypes, b \in JsonBodies \cup RawBodies}
    \cup {[code |-> 200, contentType |-> ct, body |-> b, readOk |-> TRUE] :
            ct \in OtherTypes, b \in RawBodies \cup {JsonBody("none", "")}}
    \cup {[code |-> 200, contentType |-> <<"application/octet-stream">>,
           body |-> RawBody(<<"b1", "b2">>), readOk |-> FALSE]}

\* outcomes of os.WriteFile: written; the file could not be opened; the file
\* was created and truncated but the write failed
WriteOutcomes == {"ok", "openfail", "writefail"}

-----------------------------------------------------------------------------
(* Errors are token sequences; Nil is the nil error. *)

Nil == <<>>
Contains(s, tok) == \E i \in 1..Len(s) : s[i] = tok
UnexpectedStatus(code) == <<"unexpected status: ", ToString(code)>>
UnexpectedStatusBody(code) == <<"unexpected status: ", ToString(code), ", body: ", "body">>
TransportError == <<"transport error">>
DecodeError == <<"decode error">>

\* groupExists that takes a 404 for "exists"
groupExistsOn404(resp) ==
    IF resp.code = 0 THEN [exists |-> FALSE, err |-> TransportError]
    ELSE IF resp.code = 200 \/ resp.code = 404 THEN [exists |-> TRUE, err |-> Nil]
    ELSE [exists |-> FALSE, err |-> UnexpectedStatus(resp.code)]

\* groupExists that takes every answer but 200 for "absent", without error
groupExistsLenient(resp) ==
    IF resp.code = 0 THEN [exists |-> FALSE, err |-> TransportError]
    ELSE IF resp.code = 200 THEN [exists |-> TRUE, err |-> Nil]
    ELSE [exists |-> FALSE, err |-> Nil]

\* groupExists, from the response on: (exists, err)
groupExists(resp) ==
    IF resp.code = 0 THEN [exists |-> FALSE, err |-> TransportError]
    ELSE IF resp.code = 200 THEN [exists |-> TRUE, err |-> Nil]
    ELSE IF resp.code = 404 THEN [exists |-> FALSE, err |-> Nil]
    ELSE [exists |-> FALSE, err |-> UnexpectedStatus(resp.code)]

\* deleteGroup, from the response on
deleteGroup(resp) ==
    IF resp.code = 0 THEN TransportError
    ELSE IF resp.code # 204 THEN UnexpectedStatusBody(resp.code)
    ELSE Nil

\* createGroup that accepts 200 as well as 201
createGroupAnyOk(resp) ==
    IF resp.code = 0 THEN TransportError
    ELSE IF resp.code # 201 /\ resp.code # 200 THEN UnexpectedStatusBody(resp.code)
    ELSE Nil

\* createGroup, from the response on
createGroup(resp) ==
    IF resp.code = 0 THEN TransportError
    ELSE IF resp.code # 201 THEN UnexpectedStatusBody(resp.code)
    ELSE Nil

\* operationRefs with every reference taken from the last operation
operationRefsLastOnly(ops) ==
    [i \in 1..Len(ops) |-> OperationRef(ops[Len(ops)].operationId)]

\* updateGroupOperations: the payload, one OperationRef per operation
operationRefs(ops) == [i \in 1..Len(ops) |-> OperationRef(ops[i].operationId)]

\* updateGroupOperations, from the response on
updateGroupOperations(resp) ==
    IF resp.code = 0 THEN TransportError
    ELSE IF resp.code # 204 THEN UnexpectedStatusBody(resp.code)
    ELSE Nil

\* startExport, from the response on: (exportId, err)
startExport(resp) ==
    IF resp.code = 0 THEN [exportId |-> "", err |-> TransportError]
    ELSE IF resp.code # 202 THEN [exportId |-> "", err |-> UnexpectedStatusBody(resp.code)]
    ELSE IF "decodes" \notin DOMAIN resp THEN [exportId |-> "", err |-> DecodeError]
    ELSE [exportId |-> resp.exportId, err |-> Nil]

\* fileData of getExportStatus: a nil slice or a (possibly empty) byte slice
NilData == [isNil |-> TRUE, bytes |-> <<>>]
Data(b) == [isNil |-> FALSE, bytes |-> b]

\* getExportStatus that decodes a status object whenever the body is JSON,
\* whatever the content type
getExportStatusSniffs(resp) ==
    IF resp.code = 0 THEN [status |-> "", fileData |-> NilData, err |-> TransportError]
    ELSE IF resp.code # 200
    THEN [status |-> "", fileData |-> NilData, err |-> UnexpectedStatusBody(resp.code)]
    ELSE IF resp.body.isJSON
    THEN IF resp.body.status = "error"
         THEN [status |-> resp.body.status, fileData |-> NilData,
               err |-> <<"response message: ", resp.body.message>>]
         ELSE [status |-> resp.body.status, fileData |-> NilData, err |-> Nil]
    ELSE IF Contains(resp.contentType, JsonType)
    THEN [status |-> "", fileData |-> NilData, err |-> DecodeError]
    ELSE IF ~resp.readOk
    THEN [status |-> "", fileData |-> NilData, err |-> <<"read error">>]
    ELSE [status |-> "completed", fileData |-> Data(resp.body.bytes), err |-> Nil]

\* getExportStatus, from the response on: (status, fileData, err)
getExportStatus(resp) ==
    IF resp.code = 0 THEN [status |-> "", fileData |-> NilData, err |-> TransportError]
    ELSE IF resp.code # 200
    THEN [status |-> "", fileData |-> NilData, err |-> UnexpectedStatusBody(resp.code)]
    ELSE IF Contains(resp.contentType, JsonType)
    THEN IF ~resp.body.isJSON
         THEN [status |-> "", fileData |-> NilData, err |-> DecodeError]
         ELSE IF resp.body.status = "error"
         THEN [status |-> resp.body.status, fileData |-> NilData,
               err |-> <<"response message: ", resp.body.message>>]
         ELSE [status |-> resp.body.status, fileData |-> NilData, err |-> Nil]
    ELSE IF ~resp.readOk
    THEN [status |-> "", fileData |-> NilData, err |-> <<"read error">>]
    ELSE [status |-> "completed", fileData |-> Data(resp.body.bytes), err |-> Nil]

\* waitStep that does not return on a completed export
waitStepKeepsPolling(st) ==
    IF st.err # Nil THEN [ret |-> TRUE, write |-> FALSE, err |-> st.err]
    ELSE IF st.status = "error"
    THEN [ret |-> TRUE, write |-> FALSE, err |-> <<"export failed">>]
    ELSE [ret |-> FALSE, write |-> FALSE, err |-> Nil]

\* waitStep that takes the switch on status before the error check
waitStepSwitchFirst(st) ==
    IF st.status = "completed"
    THEN IF ~st.fileData.isNil
         THEN [ret |-> TRUE, write |-> TRUE, err |-> Nil]
         ELSE [ret |-> TRUE, write |-> FALSE, err |-> <<"export data is empty">>]
    ELSE IF st.status = "error"
    THEN [ret |-> TRUE, write |-> FALSE, err |-> <<"export failed">>]
    ELSE IF st.err # Nil THEN [ret |-> TRUE, write |-> FALSE, err |-> st.err]
    ELSE [ret |-> FALSE, write |-> FALSE, err |-> Nil]

\* waitStep that fails on a status it does not know
waitStepUnknownFails(st) ==
    IF st.err # Nil THEN [ret |-> TRUE, write |-> FALSE, err |-> st.err]
    ELSE IF st.status = "completed"
    THEN IF ~st.fileData.isNil
         THEN [ret |-> TRUE, write |-> TRUE, err |-> Nil]
         ELSE [ret |-> TRUE, write |-> FALSE, err |-> <<"export data is empty">>]
    ELSE IF st.status = "error"
    THEN [ret |-> TRUE, write |-> FALSE, err |-> <<"export failed">>]
    ELSE IF st.status = "none"
    THEN [ret |-> FALSE, write |-> FALSE, err |-> Nil]
    ELSE [ret |-> TRUE, write |-> FALSE, err |-> <<"unknown status">>]

\* waitStep that writes the file on "completed" without the nil check
waitStepWritesNil(st) ==
    IF st.err # Nil THEN [ret |-> TRUE, write |-> FALSE, err |-> st.err]
    ELSE IF st.status = "completed"
    THEN [ret |-> TRUE, write |-> TRUE, err |-> Nil]
    ELSE IF st.status = "error"
    THEN [ret |-> TRUE, write |-> FALSE, err |-> <<"export failed">>]
    ELSE [ret |-> FALSE, write |-> FALSE, err |-> Nil]

\* waitAndSaveExport: the loop body after getExportStatus returned st.
\* ret: the function returns; write: it returns os.WriteFile's result
waitStep(st) ==
    IF st.err # Nil THEN [ret |-> TRUE, write |-> FALSE, err |-> st.err]
    ELSE IF st.status = "completed"
    THEN IF ~st.fileData.isNil
         THEN [ret |-> TRUE, write |-> TRUE, err |-> Nil]
         ELSE [ret |-> TRUE, write |-> FALSE, err |-> <<"export data is empty">>]
    ELSE IF st.status = "error"
    THEN [ret |-> TRUE, write |-> FALSE, err |-> <<"export failed">>]
    ELSE [ret |-> FALSE, write |-> FALSE, err |-> Nil]

TimeoutError == <<"export timed out after ", ToString(maxAttempts), " attempts">>

\* filePath := fmt.Sprintf("%s.%s", *groupName, *outputFormat)
filePath == <<groupName, ".", outputFormat>>

-----------------------------------------------------------------------------
(* main *)

flagVars == <<groupName, customTagKey, customTagValue, force, outputFormat>>
listVars == <<page, allOps>>
exportVars == <<exportId, attempt, file, writes, pendingPolls>>

Init ==
    /\ pc = "args"
    /\ groupName \in {"", "grp"}
    /\ customTagKey \in {"", XKey}
    /\ customTagValue \in {"", XValue}
    /\ force \in BOOLEAN
    /\ outputFormat \in {"yaml", "json", "xml"}
    /\ page = 0
    /\ allOps = <<>>
    /\ filteredOps = <<>>
    /\ exportId = ""
    /\ attempt = 0
    /\ file = NoFile
    /\ writes = 0
    /\ exitCode = Running
    /\ err = Nil
    /\ trace = <<>>
    /\ lastResp = NetErr
    /\ pendingPolls = 0

\* os.Exit(1) after printing prefix and e
Fail(prefix, e) ==
    /\ err' = <<prefix>> \o e
    /\ exitCode' = 1
    /\ pc' = "exit"

Send(ev) == trace' = Append(trace, ev)
Recv(req, resp) ==
    /\ trace' = Append(trace, [ev |-> "recv", req |-> req, code |-> resp.code])
    /\ lastResp' = resp

\* the operations a list response carries: none unless it is a decodable 200
PageOf(resp) ==
    IF resp.code = 200 /\ resp.decodes THEN resp.operations ELSE <<>>
RecvPage(resp) ==
    /\ trace' = Append(trace, [ev |-> "recv", req |-> "LIST", code |-> resp.code,
                               decodes |-> resp.code = 200 /\ resp.decodes,
                               operations |-> PageOf(resp)])
    /\ lastResp' = resp

\* flag validation
CheckArgs ==
    /\ pc = "args"
    /\ IF groupName = "" \/ customTagKey = "" \/ customTagValue = ""
       THEN Fail("Missing required parameters", Nil)
       ELSE IF outputFormat # "yaml" /\ outputFormat # "json"
       THEN Fail("Invalid output format", Nil)
       ELSE /\ pc' = "list_send"
            /\ UNCHANGED <<err, exitCode>>
    /\ UNCHANGED <<flagVars, listVars, filteredOps, exportVars, trace, lastResp>>

\* lastPage that also stops on a full page
lastPageInclusive(n) == n <= pageSize

\* listOperations: `if len(listResp.Operations) < pageSize { break }`
lastPage(n) == n < pageSize

\* listOperations: the page request
ListSend ==
    /\ pc = "list_send"
    /\ Send([ev |-> "send", req |-> "LIST", page |-> page])
    /\ pc' = "list_recv"
    /\ UNCHANGED <<flagVars, listVars, filteredOps, exportVars, exitCode, err, lastResp>>

\* listOperations: the page response, up to the next request or the return
ListRecv ==
    /\ pc = "list_recv"
    /\ \E resp \in ListResponses(page < MaxFullPages) :
        /\ RecvPage(resp)
        /\ IF resp.code = 0
           THEN Fail("Error listing operations: ", TransportError)
                /\ UNCHANGED listVars
           ELSE IF resp.code # 200
           THEN Fail("Error listing operations: ", UnexpectedStatus(resp.code))
                /\ UNCHANGED listVars
           ELSE IF ~resp.decodes
           THEN Fail("Error listing operations: ", DecodeError)
                /\ UNCHANGED listVars
           ELSE /\ allOps' = allOps \o resp.operations
                /\ IF lastPage(Len(resp.operations))
                   THEN /\ page' = page
                        /\ pc' = "filter"
                   ELSE /\ page' = page + 1
                        /\ pc' = "list_send"
                /\ UNCHANGED <<err, exitCode>>
    /\ UNCHANGED <<flagVars, filteredOps, exportVars>>

\* Filter without the return on an empty result
FilterNoShortCircuit ==
    /\ pc = "filter"
    /\ filteredOps' = filterOperations(allOps, customTagKey, customTagValue)
    /\ pc' = IF force THEN "probe_send" ELSE "create_send"
    /\ UNCHANGED <<flagVars, listVars, exportVars, exitCode, err, trace, lastResp>>

\* Filter that goes on to Create whatever the force flag
FilterIgnoresForce ==
    /\ pc = "filter"
    /\ filteredOps' = filterOperations(allOps, customTagKey, customTagValue)
    /\ IF Len(filteredOps') = 0
       THEN /\ exitCode' = 0
            /\ pc' = "exit"
       ELSE /\ pc' = "create_send"
            /\ UNCHANGED exitCode
    /\ UNCHANGED <<flagVars, listVars, exportVars, err, trace, lastResp>>

\* filterOperations, the empty-result return and the force branch
Filter ==
    /\ pc = "filter"
    /\ filteredOps' = filterOperations(allOps, customTagKey, customTagValue)
    /\ IF Len(filteredOps') = 0
       THEN /\ exitCode' = 0
            /\ pc' = "exit"
       ELSE /\ pc' = IF force THEN "probe_send" ELSE "create_send"
            /\ UNCHANGED exitCode
    /\ UNCHANGED <<flagVars, listVars, exportVars, err, trace, lastResp>>

ProbeSend ==
    /\ pc = "probe_send"
    /\ Send([ev |-> "send", req |-> "EXISTS", group |-> groupName])
    /\ pc' = "probe_recv"
    /\ UNCHANGED <<flagVars, listVars, filteredOps, exportVars, exitCode, err, lastResp>>

\* ProbeRecv that goes on to Create although the group exists
ProbeRecvKeepsGroup ==
    /\ pc = "probe_recv"
    /\ \E resp \in PlainResponses :
        /\ Recv("EXISTS", resp)
        /\ LET r == groupExists(resp) IN
           IF r.err # Nil
           THEN Fail("Error checking group existence: ", r.err)
           ELSE /\ pc' = "create_send"
                /\ UNCHANGED <<err, exitCode>>
    /\ UNCHANGED <<flagVars, listVars, filteredOps, exportVars>>

\* groupExists, the response and main's branch on its result
ProbeRecv ==
    /\ pc = "probe_recv"
    /\ \E resp \in PlainResponses :
        /\ Recv("EXISTS", resp)
        /\ LET r == groupExists(resp) IN
           IF r.err # Nil
           THEN Fail("Error checking group existence: ", r.err)
           ELSE /\ pc' = IF r.exists THEN "delete_send" ELSE "create_send"
                /\ UNCHANGED <<err, exitCode>>
    /\ UNCHANGED <<flagVars, listVars, filteredOps, exportVars>>

DeleteSend ==
    /\ pc = "delete_send"
    /\ Send([ev |-> "send", req |-> "DELETE", group |-> groupName])
    /\ pc' = "delete_recv"
    /\ UNCHANGED <<flagVars, listVars, filteredOps, exportVars, exitCode, err, lastResp>>

DeleteRecv ==
    /\ pc = "delete_recv"
    /\ \E resp \in PlainResponses :
        /\ Recv("DELETE", resp)
        /\ LET e == deleteGroup(resp) IN
           IF e # Nil
           THEN Fail("Error deleting group: ", e)
           ELSE /\ pc' = "create_send"
                /\ UNCHANGED <<err, exitCode>>
    /\ UNCHANGED <<flagVars, listVars, filteredOps, exportVars>>

CreateSend ==
    /\ pc = "create_send"
    /\ Send([ev |-> "send", req |-> "CREATE", group |-> groupName])
    /\ pc' = "create_recv"
    /\ UNCHANGED <<flagVars, listVars, filteredOps, exportVars, exitCode, err, lastResp>>

CreateRecv ==
    /\ pc = "create_recv"
    /\ \E resp \in PlainResponses :
        /\ Recv("CREATE", resp)
        /\ LET e == createGroup(resp) IN
           IF e # Nil
           THEN Fail("Error creating group: ", e)
           ELSE /\ pc' = "update_send"
                /\ UNCHANGED <<err, exitCode>>
    /\ UNCHANGED <<flagVars, listVars, filteredOps, exportVars>>

UpdateSend ==
    /\ pc = "update_send"
    /\ Send([ev |-> "send", req |-> "UPDATE", group |-> groupName,
             refs |-> operationRefs(filteredOps)])
    /\ pc' = "update_recv"
    /\ UNCHANGED <<flagVars, listVars, filteredOps, exportVars, exitCode, err, lastResp>>

UpdateRecv ==
    /\ pc = "update_recv"
    /\ \E resp \in PlainResponses :
        /\ Recv("UPDATE", resp)
        /\ LET e == updateGroupOperations(resp) IN
           IF e # Nil
           THEN Fail("Error updating group: ", e)
           ELSE /\ pc' = "export_send"
                /\ UNCHANGED <<err, exitCode>>
    /\ UNCHANGED <<flagVars, listVars, filteredOps, exportVars>>

ExportSend ==
    /\ pc = "export_send"
    /\ Send([ev |-> "send", req |-> "EXPORT", group |-> groupName, format |-> outputFormat])
    /\ pc' = "export_recv"
    /\ UNCHANGED <<flagVars, listVars, filteredOps, exportVars, exitCode, err, lastResp>>

ExportRecv ==
    /\ pc = "export_recv"
    /\ \E resp \in ExportResponses :
        /\ Recv("EXPORT", resp)
        /\ LET r == startExport(resp) IN
           IF r.err # Nil
           THEN /\ Fail("Error starting export: ", r.err)
                /\ UNCHANGED exportId
           ELSE /\ exportId' = r.exportId
                /\ pc' = "status_send"
                /\ UNCHANGED <<err, exitCode>>
    /\ UNCHANGED <<flagVars, listVars, filteredOps, attempt, file, writes, pendingPolls>>

\* moreAttempts with one attempt too many
moreAttemptsInclusive(a) == a <= maxAttempts

\* moreAttempts with the comparison inverted
moreAttemptsInverted(a) == a > maxAttempts

\* waitAndSaveExport: the loop condition `attempt < maxAttempts`
moreAttempts(a) == a < maxAttempts

\* waitAndSaveExport: the status request of one attempt
StatusSend ==
    /\ pc = "status_send"
    /\ moreAttempts(attempt)
    /\ Send([ev |-> "send", req |-> "STATUS", id |-> exportId])
    /\ pc' = "status_recv"
    /\ UNCHANGED <<flagVars, listVars, filteredOps, exportVars, exitCode, err, lastResp>>

\* waitAndSaveExport: the status response, the switch, the file write, and
\* the loop's increment and exit
StatusRecv ==
    /\ pc = "status_recv"
    /\ \E resp \in StatusResponses :
        /\ Recv("STATUS", resp)
        /\ LET st == getExportStatus(resp)
               step == waitStep(st)
           IN
           IF step.write
           THEN \E w \in WriteOutcomes :
                /\ writes' = writes + 1
                /\ file' = CASE w = "ok" -> [path |-> filePath, data |-> st.fileData.bytes,
                                             present |-> TRUE]
                             [] w = "openfail" -> file
                             [] w = "writefail" -> [path |-> filePath, data |-> <<>>,
                                                    present |-> TRUE]
                /\ IF w = "ok"
                   THEN /\ exitCode' = 0
                        /\ pc' = "exit"
                        /\ UNCHANGED err
                   ELSE Fail("Error during export: ", <<"write error">>)
                /\ UNCHANGED <<attempt, pendingPolls>>
           ELSE IF step.ret
           THEN /\ Fail("Error during export: ", step.err)
                /\ UNCHANGED <<attempt, file, writes, pendingPolls>>
           ELSE /\ attempt' = attempt + 1
                /\ pendingPolls' = pendingPolls + 1
                /\ IF moreAttempts(attempt')
                   THEN /\ pc' = "status_send"
                        /\ UNCHANGED <<err, exitCode>>
                   ELSE Fail("Error during export: ", TimeoutError)
                /\ UNCHANGED <<file, writes>>
    /\ UNCHANGED <<flagVars, listVars, filteredOps, exportId>>

Next ==
    \/ CheckArgs
    \/ ListSend \/ ListRecv
    \/ Filter
    \/ ProbeSend \/ ProbeRecv
    \/ DeleteSend \/ DeleteRecv
    \/ CreateSend \/ CreateRecv
    \/ UpdateSend \/ UpdateRecv
    \/ ExportSend \/ ExportRecv
    \/ StatusSend \/ StatusRecv

Spec == Init /\ [][Next]_vars

TypeOK ==
    /\ exitCode \in {Running, 0, 1}
    /\ attempt \in 0..maxAttempts
    /\ writes \in 0..1
    /\ (pc = "exit") = (exitCode # Running)

-----------------------------------------------------------------------------
(* The filter on its own: filterOperations applied to every list of at most  *)
(* MaxOps operations over the tag maps below, for two keys and two targets.  *)
(* The operation at position i has identifier i.                             *)

OtherKey == "x-other"
TagVals ==
    { StrVal("aaa"), StrVal("bbb"),
      StrsVal(<<>>), StrsVal(<<"aaa">>), StrsVal(<<"bbb", "aaa">>),
      AnysVal(<<NumVal(1), StrVal("aaa")>>), AnysVal(<<StrVal("bbb"), NumVal(2)>>),
      AnysVal(<<StrVal("aaa"), NumVal(1), StrVal("bbb")>>),
      NumVal(1) }
TagMaps ==
    {NoTags} \cup {Tag(XKey, v) : v \in TagVals}
    \cup {Tag(OtherKey, StrVal("aaa")),
          [k \in {XKey, OtherKey} |-> IF k = XKey THEN StrVal("bbb") ELSE StrVal("aaa")]}
FilterInputs ==
    UNION { { [i \in 1..n |-> Operation(i, tags[i])] : tags \in [1..n -> TagMaps] } :
            n \in 0..MaxOps }

FilterInit ==
    /\ pc = "filter"
    /\ groupName = "grp"
    /\ customTagKey \in {XKey, OtherKey}
    /\ customTagValue \in {"aaa", "bbb"}
    /\ force = FALSE
    /\ outputFormat = "yaml"
    /\ page = 0
    /\ allOps \in FilterInputs
    /\ filteredOps = <<>>
    /\ exportId = ""
    /\ attempt = 0
    /\ file = NoFile
    /\ writes = 0
    /\ exitCode = Running
    /\ err = Nil
    /\ trace = <<>>
    /\ lastResp = NetErr
    /\ pendingPolls = 0

FilterNext == Filter

FilterSpec == FilterInit /\ [][FilterNext]_vars

-----------------------------------------------------------------------------
(* Properties *)

\* the set of strings a tag value stands for
StrSet(val) ==
    CASE val.t = "string" -> {val.s}
      [] val.t = "[]string" -> {val.ss[i] : i \in DOMAIN val.ss}
      [] val.t = "[]interface{}" ->
            {val.es[i].s : i \in {j \in DOMAIN val.es : val.es[j].t = "string"}}
      [] OTHER -> {}

\* the operation carries the key and its tag value set contains the target
Wanted(op) ==
    /\ customTagKey \in DOMAIN op.customTags
    /\ customTagValue \in StrSet(op.customTags[customTagKey])

\* positions of the wanted operations of the input, and the j-th of them
WantedAt == {i \in 1..Len(allOps) : Wanted(allOps[i])}
NthWanted(j) == CHOOSE i \in WantedAt : Cardinality({m \in WantedAt : m <= i}) = j

\* main has passed the call of filterOperations
Filtered ==
    /\ pc \notin {"args", "list_send", "list_recv", "filter"}
    /\ (exitCode = 1 =>
           err[1] \notin {"Missing required parameters", "Invalid output format",
                          "Error listing operations: "})

\* C7: filterOperations returns exactly the wanted operations of its input, in
\* source order: the j-th result is the j-th wanted operation, and an
\* operation without the key is left out
C7_FilterIsOrderedSubset ==
    Filtered =>
        /\ Len(filteredOps) = Cardinality(WantedAt)
        /\ \A j \in 1..Len(filteredOps) : filteredOps[j] = allOps[NthWanted(j)]

C7_Witness ==
    /\ Filtered
    /\ Len(allOps) = 3
    /\ Len(filteredOps) = 2
    /\ customTagKey \notin DOMAIN allOps[2].customTags
    /\ filteredOps[1] = allOps[1]
    /\ filteredOps[2] = allOps[3]

\* the operation at position i of the filter's input is in its result (in
\* FilterSpec every operation of the input is distinct)
IncludedAt(i) == \E m \in 1..Len(filteredOps) : filteredOps[m] = allOps[i]

Shapes == {"string", "[]string", "[]interface{}"}
CarriesShape(i) ==
    /\ customTagKey \in DOMAIN allOps[i].customTags
    /\ allOps[i].customTags[customTagKey].t \in Shapes
TagValueAt(i) == allOps[i].customTags[customTagKey]

\* C8: two operations whose tag values stand for the same set of strings, in
\* whichever of the three shapes, get the same decision from filterOperations,
\* and the decision is "the set contains the target"
C8_ShapesAgree ==
    pc # "filter" =>
        \A i, j \in 1..Len(allOps) :
            (CarriesShape(i) /\ CarriesShape(j)
             /\ StrSet(TagValueAt(i)) = StrSet(TagValueAt(j)))
            => /\ IncludedAt(i) = IncludedAt(j)
               /\ IncludedAt(i) = (customTagValue \in StrSet(TagValueAt(i)))

C8_Witness ==
    /\ pc # "filter"
    /\ Len(allOps) = 3
    /\ \A i \in 1..3 : CarriesShape(i) /\ StrSet(TagValueAt(i)) = {customTagValue}
    /\ TagValueAt(1).t = "string"
    /\ TagValueAt(2).t = "[]string"
    /\ TagValueAt(3).t = "[]interface{}"
    /\ \E k \in 1..Len(TagValueAt(3).es) : TagValueAt(3).es[k].t # "string"
    /\ \A i \in 1..3 : IncludedAt(i)

-----------------------------------------------------------------------------
(* The requests of a run, read off the trace *)

IsSend(e, req) == e.ev = "send" /\ e.req = req
IsRecv(e, req) == e.ev = "recv" /\ e.req = req
SendsOf(req) == LET T(e) == IsSend(e, req) IN SelectSeq(trace, T)
RecvsOf(req) == LET T(e) == IsRecv(e, req) IN SelectSeq(trace, T)
Sent(req) == Len(SendsOf(req))
Acked(req, code) == \E i \in 1..Len(trace) : IsRecv(trace[i], req) /\ trace[i].code = code

\* the Delete, Create and SetMembership events of the trace, in order
GroupEvent(e) ==
    <<e.ev, e.req, IF e.ev = "recv" THEN e.code ELSE 0>>
GroupTrace ==
    LET T(e) == e.req \in {"DELETE", "CREATE", "UPDATE"}
        g == SelectSeq(trace, T)
    IN [i \in 1..Len(g) |-> GroupEvent(g[i])]
ForcedLifecycle ==
    << <<"send", "DELETE", 0>>, <<"recv", "DELETE", 204>>,
       <<"send", "CREATE", 0>>, <<"recv", "CREATE", 201>>,
       <<"send", "UPDATE", 0>>, <<"recv", "UPDATE", 204>> >>
IsPrefix(a, b) == Len(a) <= Len(b) /\ \A i \in 1..Len(a) : a[i] = b[i]

\* every Delete, Create and SetMembership response so far is the success one
GroupAcksOk ==
    \A i \in 1..Len(trace) :
        (trace[i].ev = "recv" /\ trace[i].req \in {"DELETE", "CREATE", "UPDATE"})
        => trace[i].code = (CASE trace[i].req = "DELETE" -> 204
                              [] trace[i].req = "CREATE" -> 201
                              [] trace[i].req = "UPDATE" -> 204)

PastGroupStage == pc \in {"export_send", "export_recv", "status_send", "status_recv"}
                  \/ (pc = "exit" /\ Sent("EXPORT") > 0)

\* C1: with force set, the probe answering "exists" and every group request
\* acknowledged with its success status, the group requests are Delete, Create,
\* SetMembership, once each and in that order, each sent after the response to
\* the one before; the run enters the export stage only with all three done
C1_ForcedLifecycleOrder ==
    (force /\ Acked("EXISTS", 200) /\ GroupAcksOk)
    => /\ IsPrefix(GroupTrace, ForcedLifecycle)
       /\ (PastGroupStage => GroupTrace = ForcedLifecycle)

C1_Witness ==
    /\ force
    /\ Acked("EXISTS", 200)
    /\ pc = "export_send"
    /\ GroupTrace = ForcedLifecycle

\* C2: an empty filter result ends the run with exit code zero, with no
\* request other than the list pages, and with no file written
C2_EmptyFilterStops ==
    (Filtered /\ Len(filteredOps) = 0)
    => /\ pc = "exit"
       /\ exitCode = 0
       /\ \A i \in 1..Len(trace) : trace[i].req = "LIST"
       /\ file = NoFile
       /\ writes = 0

C2_Witness ==
    /\ Filtered
    /\ Len(filteredOps) = 0
    /\ Len(allOps) = 1
    /\ Sent("LIST") = 1
    /\ exitCode = 0

\* listOperations has returned its list
ListDone == pc = "filter" \/ Filtered

RECURSIVE ConcatPages(_, _)
ConcatPages(recvs, n) ==
    IF n = 0 THEN <<>> ELSE ConcatPages(recvs, n - 1) \o recvs[n].operations

\* C3: when listOperations returns, it has received k full pages and then one
\* short page, has sent exactly k+1 page requests with the indexes 0..k in
\* order, and its result is the concatenation of the pages in page order
C3_Pagination ==
    ListDone =>
        LET sends == SendsOf("LIST")
            recvs == RecvsOf("LIST")
            n == Len(recvs)
        IN /\ n >= 1
           /\ Len(sends) = n
           /\ \A i \in 1..n : sends[i].page = i - 1
           /\ \A i \in 1..(n - 1) : Len(recvs[i].operations) = pageSize
           /\ Len(recvs[n].operations) < pageSize
           /\ allOps = ConcatPages(recvs, n)

C3_Witness ==
    /\ pc = "filter"
    /\ Sent("LIST") = 3
    /\ Len(allOps) = 2 * pageSize + MaxShort

\* the response received last is a status response that getExportStatus takes
\* for the artifact
ArtifactPolled ==
    /\ Len(trace) > 0
    /\ IsRecv(trace[Len(trace)], "STATUS")
    /\ lastResp.code = 200
    /\ ~Contains(lastResp.contentType, JsonType)
    /\ lastResp.readOk
WriteFailed == Contains(err, "write error")

\* C4: when n polls were answered with a non-terminal status object and the
\* next one with the artifact, n < maxAttempts, exactly n+1 status requests
\* were sent, os.WriteFile was called once and, unless it failed, the file
\* holds the bytes of the response unchanged and the run ends with success
C4_PollUntilArtifact ==
    ArtifactPolled =>
        /\ pendingPolls < maxAttempts
        /\ Sent("STATUS") = pendingPolls + 1
        /\ writes = 1
        /\ pc = "exit"
        /\ ~WriteFailed =>
              /\ file = [path |-> filePath, data |-> lastResp.body.bytes, present |-> TRUE]
              /\ exitCode = 0
              /\ err = Nil

C4_Witness ==
    /\ ArtifactPolled
    /\ pendingPolls = maxAttempts - 1
    /\ Sent("STATUS") = maxAttempts
    /\ file.present
    /\ file.data = <<"b1", "b2">>
    /\ exitCode = 0

\* C5: no 31st status request is ever sent, and a run all of whose status
\* polls were answered with a non-terminal status object ends after exactly
\* maxAttempts requests with the timeout error and no file written
C5_PollTimeout ==
    /\ Sent("STATUS") <= maxAttempts
    /\ (pc = "exit" /\ Sent("STATUS") > 0 /\ pendingPolls = Sent("STATUS"))
       => /\ Sent("STATUS") = maxAttempts
          /\ exitCode = 1
          /\ err = <<"Error during export: ">> \o TimeoutError
          /\ file = NoFile
          /\ writes = 0
    /\ pendingPolls = maxAttempts => pc = "exit"

C5_Witness ==
    /\ pc = "exit"
    /\ pendingPolls = maxAttempts
    /\ Sent("STATUS") = maxAttempts
    /\ exitCode = 1

\* the response received last is a status object with status "error"
ErrorPolled ==
    /\ Len(trace) > 0
    /\ IsRecv(trace[Len(trace)], "STATUS")
    /\ lastResp.code = 200
    /\ Contains(lastResp.contentType, JsonType)
    /\ lastResp.body.isJSON
    /\ lastResp.body.status = "error"

\* C6: a status object with status "error" and message X ends the run with an
\* error that contains X, with no further request and no file written
C6_ExportErrorSurfaces ==
    ErrorPolled =>
        /\ pc = "exit"
        /\ exitCode = 1
        /\ Contains(err, lastResp.body.message)
        /\ file = NoFile
        /\ writes = 0

C6_Witness ==
    /\ ErrorPolled
    /\ lastResp.body.message = "X"
    /\ pendingPolls = 2
    /\ Sent("STATUS") = 3
    /\ Contains(err, "X")

\* a sequence without repeated elements
NoRepeats(q) == \A i, j \in 1..Len(q) : q[i] = q[j] => i = j

\* C9: no SetMembership request carries an operation identifier twice
C9_NoDuplicateRefs ==
    \A i \in 1..Len(trace) : IsSend(trace[i], "UPDATE") => NoRepeats(trace[i].refs)

-----------------------------------------------------------------------------
(* Failures, read off the responses *)

\* the flags pass the validation at the head of main
ArgsValid ==
    /\ groupName # "" /\ customTagKey # "" /\ customTagValue # ""
    /\ outputFormat \in {"yaml", "json"}

\* the status code of a response event is the one its request requires
OkCode(e) ==
    CASE e.req = "LIST" -> e.code = 200
      [] e.req = "EXISTS" -> e.code \in {200, 404}
      [] e.req = "DELETE" -> e.code = 204
      [] e.req = "CREATE" -> e.code = 201
      [] e.req = "UPDATE" -> e.code = 204
      [] e.req = "EXPORT" -> e.code = 202
      [] e.req = "STATUS" -> e.code = 200

LastIsRecv(req) == Len(trace) > 0 /\ IsRecv(trace[Len(trace)], req)

\* the status response received last is a non-terminal status object
PendingPolled ==
    /\ LastIsRecv("STATUS")
    /\ lastResp.code = 200
    /\ Contains(lastResp.contentType, JsonType)
    /\ lastResp.body.isJSON
    /\ lastResp.body.status \notin {"completed", "error"}

\* the stage of the response received last has failed: a refused or
\* undecodable response, an export that reports an error or completes without
\* data, the attempt budget used up, or the file write failing
StageFailed ==
    \/ /\ Len(trace) > 0
       /\ trace[Len(trace)].ev = "recv"
       /\ \/ ~OkCode(trace[Len(trace)])
          \/ lastResp.code \in {200, 202} /\ "decodes" \in DOMAIN lastResp /\ ~lastResp.decodes
          \/ LastIsRecv("EXPORT") /\ "decodes" \notin DOMAIN lastResp
          \/ /\ LastIsRecv("STATUS")
             /\ lastResp.code = 200
             /\ IF Contains(lastResp.contentType, JsonType)
                THEN \/ ~lastResp.body.isJSON
                     \/ lastResp.body.status \in {"completed", "error"}
                     \/ Sent("STATUS") = maxAttempts
                ELSE ~lastResp.readOk
    \/ WriteFailed

\* C11: a response that fails its stage is the last event of the run: no
\* request follows it and the process exits with 1; a run that passed the flag
\* validation exits with 0 exactly when no stage has failed
C11_FailureAborts ==
    /\ \A i \in 1..(Len(trace) - 1) : trace[i].ev = "recv" => OkCode(trace[i])
    /\ StageFailed => (pc = "exit" /\ exitCode = 1)
    /\ (pc = "exit" /\ ArgsValid) => ((exitCode = 0) <=> ~StageFailed)

C11_Witness ==
    /\ pc = "exit"
    /\ exitCode = 1
    /\ LastIsRecv("UPDATE")
    /\ lastResp.code = 200
    /\ Sent("CREATE") = 1
    /\ Sent("EXPORT") = 0

\* C12: a Delete request is sent only with the force flag set and directly
\* after the existence probe of the run was answered 200
C12_DeleteOnlyForcedExisting ==
    \A i \in 1..Len(trace) :
        IsSend(trace[i], "DELETE") =>
            /\ force
            /\ i > 1
            /\ IsRecv(trace[i - 1], "EXISTS")
            /\ trace[i - 1].code = 200

C12_Witness ==
    /\ Sent("DELETE") = 1
    /\ force
    /\ Acked("EXISTS", 200)
    /\ pc = "delete_recv"

\* a run without force, or with the probe answered 404, that got as far as
\* Create without any Delete
C12_WitnessNoDelete ==
    /\ Sent("CREATE") = 1
    /\ Sent("DELETE") = 0
    /\ force
    /\ Acked("EXISTS", 404)

\* C17: after the probe's response, 200 leads to Delete and 404 to Create,
\* both without error; any other response ends the run with the probe's
\* error, and nothing is sent after it
C17_ProbeOutcomes ==
    \A i \in 1..Len(trace) :
        IsRecv(trace[i], "EXISTS") =>
            IF trace[i].code \in {200, 404}
            THEN /\ i = Len(trace) => (pc = (IF trace[i].code = 200 THEN "delete_send"
                                              ELSE "create_send") /\ err = Nil)
                 /\ i < Len(trace) =>
                       IsSend(trace[i + 1], IF trace[i].code = 200 THEN "DELETE" ELSE "CREATE")
            ELSE /\ i = Len(trace)
                 /\ pc = "exit"
                 /\ exitCode = 1
                 /\ err[1] = "Error checking group existence: "

C17_Witness ==
    /\ LastIsRecv("EXISTS")
    /\ lastResp.code = 500
    /\ pc = "exit"
    /\ exitCode = 1

\* the status response received last signals completion without data: an
\* artifact of zero bytes, or a status object with status "completed"
EmptyCompletion ==
    /\ LastIsRecv("STATUS")
    /\ lastResp.code = 200
    /\ IF Contains(lastResp.contentType, JsonType)
       THEN lastResp.body.isJSON /\ lastResp.body.status = "completed"
       ELSE lastResp.readOk /\ lastResp.body.bytes = <<>>

\* C13: a completion without data ends the run with an error and no file
C13_EmptyArtifactFails ==
    EmptyCompletion =>
        /\ pc = "exit"
        /\ exitCode = 1
        /\ writes = 0
        /\ file = NoFile

\* C14: the group requests and the export submit are sent at most once and no
\* page is requested twice; a response with a failing status code is never
\* followed by a request; a status response that is followed by anything is
\* followed by a status request; and after a non-terminal status object, with
\* fewer than maxAttempts polls made, the run goes on to the next poll
C14_OnlyPollRepeats ==
    /\ \A req \in {"EXISTS", "DELETE", "CREATE", "UPDATE", "EXPORT"} : Sent(req) <= 1
    /\ LET pages == SendsOf("LIST") IN
          \A i, j \in 1..Len(pages) : pages[i].page = pages[j].page => i = j
    /\ \A i \in 1..Len(trace) :
          (trace[i].ev = "recv" /\ ~OkCode(trace[i]))
          => \A j \in (i + 1)..Len(trace) : trace[j].ev # "send"
    /\ \A i \in 1..(Len(trace) - 1) :
          IsRecv(trace[i], "STATUS") => IsSend(trace[i + 1], "STATUS")
    /\ PendingPolled =>
          IF Sent("STATUS") < maxAttempts
          THEN pc = "status_send" /\ exitCode = Running /\ moreAttempts(attempt)
          ELSE pc = "exit" /\ exitCode = 1

C14_Witness ==
    /\ PendingPolled
    /\ lastResp.body.status = "running"
    /\ Sent("STATUS") = maxAttempts - 1
    /\ pc = "status_send"

\* C16: a 200 status response with the JSON content type never gives a file,
\* whatever its body; with another content type the body, once read, is
\* written as the artifact, whatever it is, and the run never polls again
C16_ContentTypeDecides ==
    (LastIsRecv("STATUS") /\ lastResp.code = 200) =>
        IF Contains(lastResp.contentType, JsonType)
        THEN /\ writes = 0
             /\ file = NoFile
             /\ exitCode # 0
             /\ lastResp.body.isJSON =>
                   \/ PendingPolled
                   \/ lastResp.body.status = "error"
                        /\ err = <<"Error during export: ", "response message: ",
                                   lastResp.body.message>>
                   \/ lastResp.body.status = "completed"
                        /\ err = <<"Error during export: ", "export data is empty">>
        ELSE /\ pc = "exit"
             /\ lastResp.readOk =>
                   /\ writes = 1
                   /\ ~WriteFailed =>
                         /\ file.data = lastResp.body.bytes
                         /\ exitCode = 0

C16_Witness ==
    /\ LastIsRecv("STATUS")
    /\ lastResp.code = 200
    /\ ~Contains(lastResp.contentType, JsonType)
    /\ lastResp.body.isJSON
    /\ file.present
    /\ file.data = lastResp.body.bytes
    /\ exitCode = 0

C16_WitnessJson ==
    /\ LastIsRecv("STATUS")
    /\ lastResp.code = 200
    /\ Contains(lastResp.contentType, JsonType)
    /\ ~lastResp.body.isJSON
    /\ exitCode = 1

\* position of the response to req in the trace, 0 when there is none
RecvAt(req) ==
    IF \E i \in 1..Len(trace) : IsRecv(trace[i], req)
    THEN CHOOSE i \in 1..Len(trace) : IsRecv(trace[i], req)
    ELSE 0

\* C18: os.WriteFile is called at most once, and only after Create,
\* SetMembership and the export submit were acknowledged, in that order, and a
\* status poll returned the artifact; without that call there is no file
C18_WriteOnlyAtTheEnd ==
    /\ writes <= 1
    /\ writes = 1 =>
          /\ Acked("CREATE", 201) /\ Acked("UPDATE", 204) /\ Acked("EXPORT", 202)
          /\ RecvAt("CREATE") < RecvAt("UPDATE")
          /\ RecvAt("UPDATE") < RecvAt("EXPORT")
          /\ ArtifactPolled
    /\ writes = 0 => file = NoFile
    /\ (exitCode = 1 /\ ~ArtifactPolled) => (writes = 0 /\ file = NoFile)

C18_Witness ==
    /\ writes = 1
    /\ file.present
    /\ exitCode = 0
    /\ Sent("DELETE") = 1
    /\ pendingPolls = 1

-----------------------------------------------------------------------------
(* The group on the service, read off the trace.  The service keeps one      *)
(* group: a Delete answered 204 removes it, a Create answered 201 creates it *)
(* empty, a SetMembership answered 204 replaces its members.  e0 tells       *)
(* whether the group exists before the run; it then has the members          *)
(* InitialMembers, which are no operation of the package version.            *)

InitialMembers == {0}

Recreates(e) ==
    /\ e.ev = "recv"
    /\ \/ e.req = "DELETE" /\ e.code = 204
       \/ e.req = "CREATE" /\ e.code = 201

\* the group exists when the event at position i happens
ExistsBefore(e0, i) ==
    LET acks == {j \in 1..(i - 1) : Recreates(trace[j])} IN
    IF acks = {} THEN e0
    ELSE trace[CHOOSE j \in acks : \A k \in acks : k <= j].req = "CREATE"

\* the members of the group after the run so far
MembersNow(e0) ==
    IF Acked("UPDATE", 204)
    THEN LET u == SendsOf("UPDATE")[1].refs IN {u[k].operationId : k \in 1..Len(u)}
    ELSE IF \E j \in 1..Len(trace) : Recreates(trace[j]) THEN {}
    ELSE InitialMembers

\* every answer to a group request so far is the one a service gives whose
\* group existed (e0) or not before the run: the probe tells existence, Delete
\* and SetMembership succeed on an existing group, Create succeeds exactly on
\* an absent one
ServiceAnswers(e0) ==
    \A i \in 1..Len(trace) :
        (trace[i].ev = "recv" /\ trace[i].req \in {"EXISTS", "DELETE", "CREATE", "UPDATE"})
        => LET ex == ExistsBefore(e0, i) IN
           CASE trace[i].req = "EXISTS" -> trace[i].code = (IF ex THEN 200 ELSE 404)
             [] trace[i].req = "DELETE" -> trace[i].code = (IF ex THEN 204 ELSE 404)
             [] trace[i].req = "CREATE" -> IF ex THEN trace[i].code \in {200, 404, 500}
                                                 ELSE trace[i].code = 201
             [] trace[i].req = "UPDATE" -> trace[i].code = (IF ex THEN 204 ELSE 404)

FilteredIds == {filteredOps[k].operationId : k \in 1..Len(filteredOps)}

\* the Group Manager stage of a run with a non-empty filter result is over
GroupStageOver ==
    /\ Filtered
    /\ Len(filteredOps) > 0
    /\ pc \in {"export_send", "export_recv", "status_send", "status_recv", "exit"}

GroupPopulated(e0) ==
    /\ ExistsBefore(e0, Len(trace) + 1)
    /\ MembersNow(e0) = FilteredIds

\* C15 as claimed: for either value of force and either initial existence, the
\* Group Manager stage ends with the group existing and holding the filtered
\* set
C15_GroupAlwaysPopulated ==
    \A e0 \in BOOLEAN :
        (ServiceAnswers(e0) /\ GroupStageOver) => GroupPopulated(e0)

\* C15 as amended: with force set, or with the group absent before the run,
\* the stage ends without error with the group existing and holding the
\* filtered set; without force and with the group present, Create is refused,
\* the run exits with 1 and the group is as it was
C15_GroupPopulatedUnlessKept ==
    \A e0 \in BOOLEAN :
        (ServiceAnswers(e0) /\ GroupStageOver) =>
            IF force \/ ~e0
            THEN /\ GroupPopulated(e0)
                 /\ Acked("UPDATE", 204)
                 /\ Sent("EXPORT") = 0 => pc = "export_send"
            ELSE /\ pc = "exit"
                 /\ exitCode = 1
                 /\ err[1] = "Error creating group: "
                 /\ Sent("UPDATE") = 0
                 /\ ExistsBefore(e0, Len(trace) + 1)
                 /\ MembersNow(e0) = InitialMembers

C15_Witness ==
    /\ ServiceAnswers(TRUE)
    /\ force
    /\ pc = "export_send"
    /\ Sent("DELETE") = 1
    /\ GroupPopulated(TRUE)
    /\ Len(filteredOps) > 1

C15_WitnessKept ==
    /\ ServiceAnswers(TRUE)
    /\ ~force
    /\ GroupStageOver
    /\ Sent("CREATE") = 1

-----------------------------------------------------------------------------
(* Termination.  main is one sequential process and every network call       *)
(* returns, so a step that is possible is eventually taken: weak fairness of *)
(* Next.  The service returns a short page after at most MaxFullPages full   *)
(* ones.                                                                     *)

LiveSpec == Spec /\ WF_vars(Next)

\* C19: every run reaches the end of main
C19_Terminates == <>(pc = "exit")

\* a run that ended after the longest listing and all maxAttempts polls
C19_Witness ==
    /\ pc = "exit"
    /\ Sent("LIST") = MaxFullPages + 1
    /\ Sent("STATUS") = maxAttempts
    /\ pendingPolls = maxAttempts

====
